---- MODULE Spec2Model ----
(***************************************************************************)
(* Model of the log-analysis tool: the batch pipeline of src/src/main.py   *)
(* (load_data, clean_and_transform, reshape_data, filter_data) and the     *)
(* Tk handlers of src/src/gui.py (load_initial_data,                       *)
(* clean_transform_reshape, analyze_data) over the global_data slots.      *)
(*                                                                         *)
(* A DataFrame is a record [cols, rows]: cols is the sequence of column    *)
(* labels, rows the sequence of rows, each row a function from the labels  *)
(* to the cell values.  A call that can raise returns [err, val]: err is   *)
(* "" when the call returns and the exception's name when it raises.       *)
(***************************************************************************)
EXTENDS Integers, Sequences, FiniteSets, TLC

VARIABLES
    user_log,       \* main(): the user table read by load_data
    activity_log,   \* main(): the activity table read by load_data
    merged,         \* main(): result of clean_and_transform, [err, val]
    reshaped,       \* main(): result of reshape_data, [err, val]
    pc,             \* main(): position in the pipeline
    data,           \* the DataFrame object handed to filter_data
    result,         \* the last filter_data call: its arguments and outcome
    global_data,    \* gui.py: the slots [raw, prepared]
    loaded,         \* gui.py: the tables as read by the last successful load
    last            \* gui.py: the last handler that ran, its inputs and outcome
                    \* (analyze_data: source, the prepared slot it read;
                    \* clean_transform_reshape: io, whether the two saves return,
                    \* renamed_before, whether the user table was renamed already)

vars == <<user_log, activity_log, merged, reshaped, pc, data, result,
          global_data, loaded, last>>

----------------------------------------------------------------------------
(* Bounds of the model *)

\* activity rows of a table read by main()
MaxRows == 2
\* rows of a matrix handed directly to filter_data
MaxMatrixRows == 2

----------------------------------------------------------------------------
(* Values *)

None == <<>>
Some(x) == <<x>>

EmptyDF == [cols |-> <<>>, rows |-> <<>>]
Ok(v) == [err |-> "", val |-> v]
Raise(e) == [err |-> e, val |-> EmptyDF]

Range(s) == {s[i] : i \in DOMAIN s}
InCols(df, c) == c \in Range(df.cols)

AnonCol == "User Full Name *Anonymized"
ExcludedComponents == {"System", "Folder"}

\* the component labels of the input files, in the order pivot_table sorts them
ComponentOrder == <<"Assignment", "Folder", "Quiz", "System">>
Components == Range(ComponentOrder)
UserIds == {1, 2}
Actions == {"Viewed"}

\* Date cells of the input files, read day first: <<day, month, year>>.
\* Two fall in March of different years; <<31, 2, 2024>> is no calendar date.
DateTexts == {<<15, 3, 2024>>, <<15, 3, 2025>>, <<20, 4, 2024>>, <<31, 2, 2024>>}

IsLeap(y) == (y % 4 = 0 /\ y % 100 # 0) \/ y % 400 = 0
DaysInMonth(m, y) ==
    IF m = 2 THEN (IF IsLeap(y) THEN 29 ELSE 28)
    ELSE IF m \in {4, 6, 9, 11} THEN 30 ELSE 31
IsCalendarDate(d, m, y) == m \in 1..12 /\ d >= 1 /\ d <= DaysInMonth(m, y)

\* pd.to_datetime(text, dayfirst=True) of one cell
to_datetime_dayfirst(t) ==
    IF IsCalendarDate(t[1], t[2], t[3])
    THEN Ok([year |-> t[3], month |-> t[2], day |-> t[1]])
    ELSE [err |-> "DateParseError", val |-> [year |-> 0, month |-> 0, day |-> 0]]

\* pd.to_datetime(text) of a GUI entry, written year first: <<year, month, day>>
to_datetime_iso(t) ==
    IF IsCalendarDate(t[3], t[2], t[1])
    THEN Ok([year |-> t[1], month |-> t[2], day |-> t[3]])
    ELSE [err |-> "ValueError", val |-> [year |-> 0, month |-> 0, day |-> 0]]

\* Timestamp comparison a <= b
TsLE(a, b) ==
    \/ a.year < b.year
    \/ a.year = b.year /\ a.month < b.month
    \/ a.year = b.year /\ a.month = b.month /\ a.day <= b.day

RECURSIVE SortedInts(_)
SortedInts(S) ==
    IF S = {} THEN <<>>
    ELSE LET lo == CHOOSE x \in S : \A y \in S : x <= y
         IN <<lo>> \o SortedInts(S \ {lo})

RECURSIVE Flatten(_)
Flatten(ss) == IF ss = <<>> THEN <<>> ELSE Head(ss) \o Flatten(Tail(ss))

SeqsUpTo(S, n) == UNION {[1..k -> S] : k \in 0..n}

----------------------------------------------------------------------------
(* load_data: the tables a CSV directory can hold *)

\* header of the identifier column of a file: the expected one or another
IdHeaders == {AnonCol, "Name"}

UserTable(hdr, ids) ==
    [cols |-> <<hdr>>, rows |-> [i \in DOMAIN ids |-> (hdr :> ids[i])]]

ActivityRow(hdr, u, c, a, d) ==
    (hdr :> u) @@ [Component |-> c, Action |-> a, Date |-> d]

ActivityRows(hdr) ==
    {ActivityRow(hdr, u, c, a, d) :
        u \in UserIds, c \in Components, a \in Actions, d \in DateTexts}

ActivityTable(hdr, rows) ==
    [cols |-> <<hdr, "Component", "Action", "Date">>, rows |-> rows]

\* one row per user in USER_LOG (spec.md section 3), in file order
UserTables == {UserTable(h, SortedInts(S)) : h \in IdHeaders, S \in SUBSET UserIds}
ActivityTables(n) ==
    {ActivityTable(AnonCol, r) : r \in SeqsUpTo(ActivityRows(AnonCol), n)}
        \cup {ActivityTable("Name", <<>>)}

ComponentCodes == [cols |-> <<"Component", "Code">>, rows |-> <<>>]

----------------------------------------------------------------------------
(* clean_and_transform *)

\* DataFrame.rename(columns={old: new}): a label that is absent is ignored
rename(df, old, new) ==
    IF ~InCols(df, old) THEN df
    ELSE [cols |-> [i \in DOMAIN df.cols |->
                        IF df.cols[i] = old THEN new ELSE df.cols[i]],
          rows |-> [i \in DOMAIN df.rows |->
                        [c \in (DOMAIN df.rows[i] \ {old}) \cup {new} |->
                            IF c = new THEN df.rows[i][old] ELSE df.rows[i][c]]]]

\* the rows of right matching one row of left, each joined to it
JoinRow(l, right, on) ==
    LET Match(r) == r[on] = l[on]
        hits == SelectSeq(right.rows, Match)
    IN [i \in DOMAIN hits |-> l @@ hits[i]]

merge_right(left, right, on) ==
    IF ~InCols(left, on) \/ ~InCols(right, on) THEN Raise("KeyError")
    ELSE Ok([cols |-> right.cols, rows |-> right.rows])

\* pd.merge(left, right, on=on): inner join, left row order kept
merge(left, right, on) ==
    IF ~InCols(left, on) \/ ~InCols(right, on) THEN Raise("KeyError")
    ELSE LET NotKey(c) == c # on
         IN Ok([cols |-> left.cols \o SelectSeq(right.cols, NotKey),
                rows |-> Flatten([i \in DOMAIN left.rows |->
                                    JoinRow(left.rows[i], right, on)])])

drop_excluded_SystemOnly(activity) ==
    LET Kept(r) == r["Component"] # "System"
    IN [activity EXCEPT !.rows = SelectSeq(@, Kept)]

\* activity_log[~activity_log['Component'].isin(['System', 'Folder'])].copy()
drop_excluded(activity) ==
    LET Kept(r) == r["Component"] \notin ExcludedComponents
    IN [activity EXCEPT !.rows = SelectSeq(@, Kept)]

clean_and_transform_merge_then_rename(user, activity, component_codes) ==
    IF ~InCols(activity, "Component")
    THEN [err |-> "KeyError", val |-> EmptyDF, user_log |-> user]
    ELSE LET kept == drop_excluded(activity)
             m == merge(user, kept, AnonCol)
         IN [err |-> m.err, val |-> rename(m.val, AnonCol, "User_ID"),
             user_log |-> rename(user, AnonCol, "User_ID")]

\* Returns [err, val, user_log]: user_log is the caller's user table after the
\* call, which renames its column in place; the activity table is copied first.
clean_and_transform(user, activity, component_codes) ==
    IF ~InCols(activity, "Component")
    THEN [err |-> "KeyError", val |-> EmptyDF, user_log |-> user]
    ELSE LET kept == drop_excluded(activity)
             u == rename(user, AnonCol, "User_ID")
             a == rename(kept, AnonCol, "User_ID")
             m == merge(u, a, "User_ID")
         IN [err |-> m.err, val |-> m.val, user_log |-> u]

----------------------------------------------------------------------------
(* reshape_data *)

RowMonth(r) == to_datetime_dayfirst(r["Date"]).val.month

KeyLE(a, b) == a[1] < b[1] \/ (a[1] = b[1] /\ a[2] <= b[2])

RECURSIVE SortedKeys(_)
SortedKeys(S) ==
    IF S = {} THEN <<>>
    ELSE LET lo == CHOOSE x \in S : \A y \in S : KeyLE(x, y)
         IN <<lo>> \o SortedKeys(S \ {lo})

count_all_months(rows, u, m, c) ==
    Cardinality({i \in DOMAIN rows :
        rows[i]["User_ID"] = u /\ rows[i]["Component"] = c})

\* aggfunc='count' of Action over the group (User_ID, Month, Component)
count_actions(rows, u, m, c) ==
    Cardinality({i \in DOMAIN rows :
        /\ rows[i]["User_ID"] = u
        /\ RowMonth(rows[i]) = m
        /\ rows[i]["Component"] = c})

\* pivot_table(index=['User_ID','Month'], columns='Component', values='Action',
\*             aggfunc='count').fillna(0), then reset_index
pivot_table(rows) ==
    LET seen == {rows[i]["Component"] : i \in DOMAIN rows}
        Seen(c) == c \in seen
        comps == SelectSeq(ComponentOrder, Seen)
        keys == SortedKeys({<<rows[i]["User_ID"], RowMonth(rows[i])>> : i \in DOMAIN rows})
    IN [cols |-> <<"User_ID", "Month">> \o comps,
        rows |-> [k \in DOMAIN keys |->
                    [c \in {"User_ID", "Month"} \cup seen |->
                        IF c = "User_ID" THEN keys[k][1]
                        ELSE IF c = "Month" THEN keys[k][2]
                        ELSE count_actions(rows, keys[k][1], keys[k][2], c)]]]

reshape_data(merged_data) ==
    IF ~InCols(merged_data, "Date") THEN Raise("KeyError")
    ELSE IF \E i \in DOMAIN merged_data.rows :
                to_datetime_dayfirst(merged_data.rows[i]["Date"]).err # ""
    THEN Raise("DateParseError")
    ELSE Ok(pivot_table(merged_data.rows))

----------------------------------------------------------------------------
(* main(): load_data, clean_and_transform, reshape_data *)

InitMain ==
    /\ pc = "start"
    /\ user_log = EmptyDF
    /\ activity_log = EmptyDF
    /\ merged = Raise("")
    /\ reshaped = Raise("")
    /\ data = EmptyDF
    /\ result = None
    /\ global_data = [raw |-> None, prepared |-> None]
    /\ loaded = None
    /\ last = [op |-> "start"]

MainLoad ==
    /\ pc = "start"
    /\ \E u \in UserTables, a \in ActivityTables(MaxRows) :
        /\ user_log' = u
        /\ activity_log' = a
    /\ pc' = "loaded"
    /\ UNCHANGED <<merged, reshaped, data, result, global_data, loaded, last>>

MainClean ==
    /\ pc = "loaded"
    /\ LET ct == clean_and_transform(user_log, activity_log, ComponentCodes)
       IN /\ merged' = [err |-> ct.err, val |-> ct.val]
          /\ user_log' = ct.user_log
          /\ pc' = IF ct.err = "" THEN "cleaned" ELSE "raised"
    /\ UNCHANGED <<activity_log, reshaped, data, result, global_data, loaded, last>>

MainReshape ==
    /\ pc = "cleaned"
    /\ reshaped' = reshape_data(merged.val)
    /\ pc' = IF reshaped'.err = "" THEN "reshaped" ELSE "raised"
    /\ UNCHANGED <<user_log, activity_log, merged, data, result, global_data,
                   loaded, last>>

NextMain == MainLoad \/ MainClean \/ MainReshape

SpecMain == InitMain /\ [][NextMain]_vars

----------------------------------------------------------------------------
(* filter_data *)

\* Python truth of an optional list argument: neither None nor empty
Truthy(opt) == opt # None /\ opt[1] # {}

Project(rows, cols) ==
    [i \in DOMAIN rows |-> [c \in Range(cols) |-> rows[i][c]]]

filter_users_none(df, user_ids) == Ok(df)

\* if user_ids: filtered_data[filtered_data['User_ID'].isin(user_ids)]
filter_users(df, user_ids) ==
    IF ~Truthy(user_ids) THEN Ok(df)
    ELSE IF ~InCols(df, "User_ID") THEN Raise("KeyError")
    ELSE LET In(r) == r["User_ID"] \in user_ids[1]
         IN Ok([df EXCEPT !.rows = SelectSeq(@, In)])

\* if components: keep the columns named in components, and User_ID and Month
filter_components(df, components) ==
    IF ~Truthy(components) THEN Ok(df)
    ELSE LET Keep(c) == c \in components[1] \/ c \in {"User_ID", "Month"}
             cols == SelectSeq(df.cols, Keep)
         IN Ok([cols |-> cols, rows |-> Project(df.rows, cols)])

filter_dates_noop_without_Date(df, date_range) ==
    IF date_range = None \/ ~InCols(df, "Date") THEN Ok(df)
    ELSE LET In(r) == TsLE(date_range[1][1], r["Date"]) /\ TsLE(r["Date"], date_range[1][2])
         IN Ok([df EXCEPT !.rows = SelectSeq(@, In)])

filter_dates_either_bound(df, date_range) ==
    IF date_range = None THEN Ok(df)
    ELSE IF ~InCols(df, "Date") THEN Raise("KeyError")
    ELSE LET In(r) == TsLE(date_range[1][1], r["Date"]) \/ TsLE(r["Date"], date_range[1][2])
         IN Ok([df EXCEPT !.rows = SelectSeq(@, In)])

\* if date_range: rows with start_date <= Date <= end_date
filter_dates(df, date_range) ==
    IF date_range = None THEN Ok(df)
    ELSE IF ~InCols(df, "Date") THEN Raise("KeyError")
    ELSE LET In(r) == TsLE(date_range[1][1], r["Date"]) /\ TsLE(r["Date"], date_range[1][2])
         IN Ok([df EXCEPT !.rows = SelectSeq(@, In)])

\* Returns [err, val, data]: data is the caller's DataFrame after the call
\* (the stages work on data.copy() and build new frames).
filter_data(df, user_ids, components, date_range) ==
    LET s1 == filter_users(df, user_ids)
        s2 == IF s1.err # "" THEN s1 ELSE filter_components(s1.val, components)
        s3 == IF s2.err # "" THEN s2 ELSE filter_dates(s2.val, date_range)
    IN [err |-> s3.err, val |-> s3.val, data |-> df]

----------------------------------------------------------------------------
(* Calls of filter_data on a matrix of the caller *)

\* the values of a Date column, and the ends of a date range
Timestamps ==
    {to_datetime_dayfirst(t).val : t \in {<<15, 3, 2024>>, <<20, 4, 2024>>}}

MatrixRow(u, ts) ==
    [User_ID |-> u, Month |-> ts.month, Assignment |-> 0, Quiz |-> 1, Date |-> ts]

PlainCols == <<"User_ID", "Month", "Assignment", "Quiz">>
DatedCols == PlainCols \o <<"Date">>

\* wide matrices, with and without a retained Date column
Matrices ==
    {[cols |-> DatedCols, rows |-> r] :
        r \in SeqsUpTo({MatrixRow(u, ts) : u \in UserIds, ts \in Timestamps}, MaxMatrixRows)}
    \cup
    {[cols |-> PlainCols, rows |-> Project(r, PlainCols)] :
        r \in SeqsUpTo({MatrixRow(u, ts) : u \in UserIds, ts \in Timestamps}, MaxMatrixRows)}

UserIdArgs == {None} \cup {Some(S) : S \in SUBSET UserIds}
ComponentArgs ==
    {None, Some({}), Some({"Quiz"}), Some({"Quiz", "Lecture"}), Some({"Quiz", "Date"})}
DateRangeArgs == {None} \cup {Some(<<a, b>>) : a, b \in Timestamps}

InitFilter ==
    /\ data \in Matrices
    /\ result = None
    /\ pc = "start"
    /\ user_log = EmptyDF
    /\ activity_log = EmptyDF
    /\ merged = Raise("")
    /\ reshaped = Raise("")
    /\ global_data = [raw |-> None, prepared |-> None]
    /\ loaded = None
    /\ last = [op |-> "start"]

FilterData ==
    /\ \E user_ids \in UserIdArgs, components \in ComponentArgs,
          date_range \in DateRangeArgs :
        LET r == filter_data(data, user_ids, components, date_range)
        IN /\ result' = Some([user_ids |-> user_ids, components |-> components,
                              date_range |-> date_range, err |-> r.err, val |-> r.val])
           /\ data' = r.data
    /\ UNCHANGED <<user_log, activity_log, merged, reshaped, pc, global_data,
                   loaded, last>>

NextFilter == FilterData

SpecFilter == InitFilter /\ [][NextFilter]_vars

----------------------------------------------------------------------------
(* gui.py: the handlers over global_data *)

\* int(token) of map(int, user_ids): the integer, or ValueError
int(tok) ==
    CASE tok = "1" -> [err |-> "", val |-> 1]
      [] tok = "2" -> [err |-> "", val |-> 2]
      [] tok = " 2" -> [err |-> "", val |-> 2]
      [] OTHER -> [err |-> "ValueError", val |-> 0]

\* The text of an Entry is the sequence of its comma-separated pieces
\* (text.split(",")); the empty text is <<>>.
UserFilterTexts == {<<>>, <<"1">>, <<"x">>}
ComponentFilterTexts == {<<>>, <<"Quiz">>, <<"Quiz", "Lecture">>}
\* a date Entry: empty, or <<year, month, day>> as typed
DateEntryTexts == {<<>>, <<2024, 3, 1>>}
AnalysisTypes == {"Monthly Totals", "Correlation Analysis"}

IsEmptyFrame(df) == df.rows = <<>> \/ df.cols = <<>>

Raw(u, a, c) == [user_log |-> u, activity_log |-> a, component_codes |-> c]

\* Returns [global_data, status]; io.json and io.csv say whether save_to_json
\* and backup_to_file return (TRUE) or raise.
clean_transform_reshape_early_store(gd, io) ==
    IF gd.raw = None THEN [global_data |-> gd, status |-> "NoData"]
    ELSE LET raw == gd.raw[1]
             ct == clean_and_transform(raw.user_log, raw.activity_log, raw.component_codes)
             gd1 == [gd EXCEPT !.raw = Some([raw EXCEPT !.user_log = ct.user_log])]
             rs == reshape_data(ct.val)
             gd2 == [gd1 EXCEPT !.prepared = Some(rs.val)]
         IN IF ct.err # "" THEN [global_data |-> gd1, status |-> ct.err]
            ELSE IF rs.err # "" THEN [global_data |-> gd1, status |-> rs.err]
            ELSE IF ~io.json THEN [global_data |-> gd2, status |-> "OSError:save_to_json"]
            ELSE IF ~io.csv THEN [global_data |-> gd2, status |-> "OSError:backup_to_file"]
            ELSE [global_data |-> gd2, status |-> "ok"]

clean_transform_reshape(gd, io) ==
    IF gd.raw = None THEN [global_data |-> gd, status |-> "NoData"]
    ELSE LET raw == gd.raw[1]
             ct == clean_and_transform(raw.user_log, raw.activity_log, raw.component_codes)
             \* the rename of the user table is in place: the raw slot sees it
             gd1 == [gd EXCEPT !.raw = Some([raw EXCEPT !.user_log = ct.user_log])]
             rs == reshape_data(ct.val)
         IN IF ct.err # "" THEN [global_data |-> gd1, status |-> ct.err]
            ELSE IF rs.err # "" THEN [global_data |-> gd1, status |-> rs.err]
            ELSE IF ~io.json THEN [global_data |-> gd1, status |-> "OSError:save_to_json"]
            ELSE IF ~io.csv THEN [global_data |-> gd1, status |-> "OSError:backup_to_file"]
            ELSE [global_data |-> [gd1 EXCEPT !.prepared = Some(rs.val)], status |-> "ok"]

\* filtered_data[filtered_data['User_ID'].isin(map(int, user_ids))]
gui_filter_users(df, tokens) ==
    IF tokens = <<>> THEN Ok(df)
    ELSE IF \E i \in DOMAIN tokens : int(tokens[i]).err # "" THEN Raise("ValueError")
    ELSE LET ids == {int(tokens[i]).val : i \in DOMAIN tokens}
             In(r) == r["User_ID"] \in ids
         IN Ok([df EXCEPT !.rows = SelectSeq(@, In)])

\* filtered_data[['User_ID', 'Month'] + components]
gui_filter_components(df, tokens) ==
    IF tokens = <<>> THEN Ok(df)
    ELSE LET cols == <<"User_ID", "Month">> \o tokens
         IN IF \E i \in DOMAIN cols : ~InCols(df, cols[i]) THEN Raise("KeyError")
            ELSE Ok([cols |-> cols, rows |-> Project(df.rows, cols)])

\* if date_range[0] and date_range[1]: rows with start <= Date <= end
gui_filter_dates(df, start, end) ==
    IF start = None \/ end = None THEN Ok(df)
    ELSE IF ~InCols(df, "Date") THEN Raise("KeyError")
    ELSE LET In(r) == TsLE(start[1], r["Date"]) /\ TsLE(r["Date"], end[1])
         IN Ok([df EXCEPT !.rows = SelectSeq(@, In)])

NoChart == [kind |-> "", component |-> ""]

\* the component plotted, or the heatmap
chart_of(df, tokens, analysis) ==
    IF analysis = "Monthly Totals"
    THEN [kind |-> "bar", component |-> IF tokens # <<>> THEN tokens[1] ELSE df.cols[3]]
    ELSE [kind |-> "heatmap", component |-> ""]

Outcome(gd, status, view, chart) ==
    [global_data |-> gd, status |-> status, view |-> view, chart |-> chart]

analyze_data_store_view(gd, q) ==
    IF gd.prepared = None \/ IsEmptyFrame(gd.prepared[1])
    THEN Outcome(gd, "NoPrepared", EmptyDF, NoChart)
    ELSE LET s1 == gui_filter_users(gd.prepared[1], q.user_filter)
         IN IF s1.err # "" THEN Outcome(gd, s1.err, EmptyDF, NoChart)
            ELSE Outcome([gd EXCEPT !.prepared = Some(s1.val)], "Shown", s1.val, NoChart)

\* Returns [global_data, status, view, chart]
analyze_data(gd, q) ==
    IF gd.prepared = None \/ IsEmptyFrame(gd.prepared[1])
    THEN Outcome(gd, "NoPrepared", EmptyDF, NoChart)
    ELSE LET prepared_data == gd.prepared[1]
             sd == IF q.start_date = <<>> THEN Ok(None)
                   ELSE LET t == to_datetime_iso(q.start_date)
                        IN [err |-> t.err, val |-> Some(t.val)]
             ed == IF q.end_date = <<>> THEN Ok(None)
                   ELSE LET t == to_datetime_iso(q.end_date)
                        IN [err |-> t.err, val |-> Some(t.val)]
             s1 == gui_filter_users(prepared_data, q.user_filter)
             s2 == IF s1.err # "" THEN s1 ELSE gui_filter_components(s1.val, q.component_filter)
             s3 == IF s2.err # "" THEN s2 ELSE gui_filter_dates(s2.val, sd.val, ed.val)
         IN IF sd.err # "" THEN Outcome(gd, sd.err, EmptyDF, NoChart)
            ELSE IF ed.err # "" THEN Outcome(gd, ed.err, EmptyDF, NoChart)
            ELSE IF s3.err # "" THEN Outcome(gd, s3.err, EmptyDF, NoChart)
            ELSE IF IsEmptyFrame(s3.val) THEN Outcome(gd, "Empty", s3.val, NoChart)
            ELSE Outcome(gd, "Shown", s3.val,
                         chart_of(s3.val, q.component_filter, q.analysis_type))

\* The directories the GUI session reads: user tables with and without the
\* expected header, and activity tables that are empty, have one row, have
\* two users and two components, hold only excluded components, hold an
\* impossible date, or lack the expected header.
SampleUserTables ==
    {UserTable(AnonCol, <<1, 2>>), UserTable(AnonCol, <<1>>), UserTable("Name", <<1, 2>>)}
SampleActivityTables ==
    {ActivityTable(AnonCol, <<>>),
     ActivityTable(AnonCol, <<ActivityRow(AnonCol, 1, "Quiz", "Viewed", <<15, 3, 2024>>)>>),
     ActivityTable(AnonCol, <<ActivityRow(AnonCol, 1, "Quiz", "Viewed", <<15, 3, 2024>>),
                              ActivityRow(AnonCol, 1, "Assignment", "Viewed", <<15, 3, 2024>>),
                              ActivityRow(AnonCol, 2, "Quiz", "Viewed", <<20, 4, 2024>>)>>),
     ActivityTable(AnonCol, <<ActivityRow(AnonCol, 1, "System", "Viewed", <<15, 3, 2024>>),
                              ActivityRow(AnonCol, 2, "Folder", "Viewed", <<20, 4, 2024>>)>>),
     ActivityTable(AnonCol, <<ActivityRow(AnonCol, 1, "Quiz", "Viewed", <<15, 3, 2024>>),
                              ActivityRow(AnonCol, 2, "Quiz", "Viewed", <<31, 2, 2024>>)>>),
     ActivityTable("Name", <<>>)}

\* whether the raw slot's user table already carries the renamed column
AlreadyRenamed(gd) ==
    gd.raw # None /\ InCols(gd.raw[1].user_log, "User_ID")

Init ==
    /\ global_data = [raw |-> None, prepared |-> None]
    /\ loaded = None
    /\ last = [op |-> "start"]
    /\ pc = "start"
    /\ user_log = EmptyDF
    /\ activity_log = EmptyDF
    /\ merged = Raise("")
    /\ reshaped = Raise("")
    /\ data = EmptyDF
    /\ result = None

UnchangedBatch == UNCHANGED <<user_log, activity_log, merged, reshaped, pc, data, result>>

\* askdirectory returns "" (cancel), or load_data raises, or the tables are stored
LoadInitialData ==
    /\ \/ /\ last' = [op |-> "load_initial_data", status |-> "Cancelled"]
          /\ UNCHANGED <<global_data, loaded>>
       \/ /\ last' = [op |-> "load_initial_data", status |-> "Failed"]
          /\ UNCHANGED <<global_data, loaded>>
       \/ \E u \in SampleUserTables, a \in SampleActivityTables :
          /\ global_data' = [global_data EXCEPT !.raw = Some(Raw(u, a, ComponentCodes))]
          /\ loaded' = Some(Raw(u, a, ComponentCodes))
          /\ last' = [op |-> "load_initial_data", status |-> "Success"]
    /\ UnchangedBatch

CleanTransformReshape ==
    /\ \E io \in [json : BOOLEAN, csv : BOOLEAN] :
        LET r == clean_transform_reshape(global_data, io)
        IN /\ global_data' = r.global_data
           /\ last' = [op |-> "clean_transform_reshape", status |-> r.status,
                       io |-> io, renamed_before |-> AlreadyRenamed(global_data)]
    /\ UNCHANGED loaded
    /\ UnchangedBatch

Queries ==
    [user_filter : UserFilterTexts, component_filter : ComponentFilterTexts,
     start_date : DateEntryTexts, end_date : DateEntryTexts,
     analysis_type : AnalysisTypes]

AnalyzeData ==
    /\ \E q \in Queries :
        LET r == analyze_data(global_data, q)
        IN /\ global_data' = r.global_data
           /\ last' = [op |-> "analyze_data", query |-> q, status |-> r.status,
                       view |-> r.view, chart |-> r.chart,
                       source |-> global_data.prepared]
    /\ UNCHANGED loaded
    /\ UnchangedBatch

Next == LoadInitialData \/ CleanTransformReshape \/ AnalyzeData

Spec == Init /\ [][Next]_vars

----------------------------------------------------------------------------
(* Properties of the pipeline, checked under SpecMain *)

\* the identifiers of a table, under whichever header its column carries
IdsOf(df) ==
    LET c == IF InCols(df, "User_ID") THEN "User_ID" ELSE AnonCol
    IN {df.rows[i][c] : i \in DOMAIN df.rows}

RECURSIVE SumCells(_, _)
SumCells(row, comps) ==
    IF comps = <<>> THEN 0 ELSE row[Head(comps)] + SumCells(row, Tail(comps))

ComponentCols(df) == SubSeq(df.cols, 3, Len(df.cols))

\* activity rows of the file, of user u in month m, outside System and Folder
Qualifying(u, m) ==
    Cardinality({i \in DOMAIN activity_log.rows :
        /\ activity_log.rows[i][AnonCol] = u
        /\ to_datetime_dayfirst(activity_log.rows[i]["Date"]).val.month = m
        /\ activity_log.rows[i]["Component"] \notin ExcludedComponents})

\* C1: the output of clean_and_transform holds no row whose Component is
\* System or Folder.
C1_NoExcludedComponent ==
    \A i \in DOMAIN merged.val.rows :
        merged.val.rows[i]["Component"] \notin ExcludedComponents

\* a merge that returned rows, from a file with a Folder row of a known user
C1_Witness ==
    /\ pc = "cleaned"
    /\ merged.val.rows # <<>>
    /\ \E i \in DOMAIN activity_log.rows :
        /\ activity_log.rows[i]["Component"] = "Folder"
        /\ activity_log.rows[i][AnonCol] \in IdsOf(user_log)

\* C2: every row of the output of clean_and_transform carries a user
\* identifier that occurs in the user table and in the activity table.
C2_InnerJoin ==
    \A i \in DOMAIN merged.val.rows :
        /\ merged.val.rows[i]["User_ID"] \in IdsOf(user_log)
        /\ merged.val.rows[i]["User_ID"] \in IdsOf(activity_log)

\* a merge that returned rows and dropped an activity row of an unknown user
C2_Witness ==
    /\ pc = "cleaned"
    /\ merged.val.rows # <<>>
    /\ \E i \in DOMAIN activity_log.rows :
        /\ activity_log.rows[i]["Component"] \notin ExcludedComponents
        /\ activity_log.rows[i][AnonCol] \notin IdsOf(user_log)

----------------------------------------------------------------------------
(* Properties of filter_data, checked under SpecFilter *)

\* the frame the date-range stage of the recorded call receives
BeforeDates(q) == filter_data(data, q.user_ids, q.components, None).val

Inverted(date_range) == ~TsLE(date_range[1][1], date_range[1][2])

\* C4: with a non-empty user_ids S the call returns exactly the rows whose
\* User_ID is in S; with user_ids empty or absent and no other predicate it
\* returns the matrix unchanged.
C4_UserFilter ==
    result # None =>
        LET q == result[1]
            InS(r) == r["User_ID"] \in q.user_ids[1]
        IN /\ (Truthy(q.user_ids) /\ q.date_range = None) =>
                /\ q.err = ""
                /\ q.val.rows = Project(SelectSeq(data.rows, InS), q.val.cols)
           /\ (~Truthy(q.user_ids) /\ ~Truthy(q.components) /\ q.date_range = None) =>
                /\ q.err = ""
                /\ q.val = data

\* a call with S = {1} on a matrix of users 1 and 2 that kept one row
C4_Witness ==
    /\ result # None
    /\ result[1].user_ids = Some({1})
    /\ result[1].date_range = None
    /\ Len(data.rows) = 2
    /\ Len(result[1].val.rows) = 1

\* C8, as stated: a date range given for a frame without a Date column is a
\* silent no-op, the call returns the rows of the earlier stages.
C8_SilentNoOp ==
    result # None =>
        LET q == result[1]
        IN (q.date_range # None /\ ~InCols(BeforeDates(q), "Date")) =>
                /\ q.err = ""
                /\ q.val = BeforeDates(q)

\* C8, amended: a date range given for a frame without a Date column makes
\* the call raise KeyError; no frame is returned.
C8_RaisesKeyError ==
    result # None =>
        LET q == result[1]
        IN (q.date_range # None /\ ~InCols(BeforeDates(q), "Date")) =>
                /\ q.err = "KeyError"
                /\ q.val = EmptyDF

\* a date range given after the components stage removed the Date column
C8_Witness ==
    /\ result # None
    /\ result[1].date_range # None
    /\ InCols(data, "Date")
    /\ data.rows # <<>>
    /\ ~InCols(BeforeDates(result[1]), "Date")
    /\ result[1].err = "KeyError"

\* C9, as stated: a date range whose start is later than its end returns an
\* empty result, not an error.
C9_InvertedRangeEmpty ==
    result # None =>
        LET q == result[1]
        IN (q.date_range # None /\ Inverted(q.date_range)) =>
                /\ q.err = ""
                /\ q.val.rows = <<>>

\* C9, amended: when the frame still has its Date column at the date-range
\* stage, a range whose start is later than its end returns an empty result,
\* not an error.
C9_InvertedRangeEmptyWithDate ==
    result # None =>
        LET q == result[1]
        IN (/\ q.date_range # None
            /\ Inverted(q.date_range)
            /\ InCols(BeforeDates(q), "Date")) =>
                /\ q.err = ""
                /\ q.val.rows = <<>>

\* an inverted range applied to rows of a frame that has a Date column
C9_Witness ==
    /\ result # None
    /\ result[1].date_range # None
    /\ Inverted(result[1].date_range)
    /\ InCols(BeforeDates(result[1]), "Date")
    /\ BeforeDates(result[1]).rows # <<>>
    /\ result[1].err = ""
    /\ result[1].val.rows = <<>>

----------------------------------------------------------------------------
(* Properties of the GUI session, checked under Spec *)

BothDates(q) == q.start_date # <<>> /\ q.end_date # <<>>

\* the named components that are columns of the frame, in the frame's order
PresentNamed(df, names) ==
    LET Named(c) == c \in names /\ c \notin {"User_ID", "Month"}
    IN SelectSeq(df.cols, Named)

\* C5: a components filter keeps User_ID, Month and the named components that
\* are columns of the matrix, and a name that is no column is ignored without
\* an error, in filter_data and in the filter of analyze_data.
C5_UnknownComponentIgnored ==
    /\ global_data.prepared # None =>
        \A comps \in ComponentArgs :
            LET r == filter_data(global_data.prepared[1], None, comps, None)
            IN Truthy(comps) =>
                /\ r.err = ""
                /\ r.val.cols = <<"User_ID", "Month">>
                                  \o PresentNamed(global_data.prepared[1], comps[1])
    /\ (/\ last.op = "analyze_data"
        /\ last.status \notin {"NoPrepared", "ValueError"}
        /\ last.query.component_filter # <<>>
        /\ ~BothDates(last.query)) =>
            /\ last.status # "KeyError"
            /\ Range(last.view.cols) =
                 {"User_ID", "Month"}
                    \cup Range(PresentNamed(global_data.prepared[1],
                                            Range(last.query.component_filter)))

\* C6: a query leaves the prepared slot as it was, whether it shows a chart,
\* finds nothing or raises; and filter_data leaves the frame it is given as
\* it was, for every choice of predicates.
C6_FilterLeavesSource ==
    /\ last.op = "analyze_data" => global_data.prepared = last.source
    /\ global_data.prepared # None =>
        \A u \in UserIdArgs, c \in ComponentArgs, d \in DateRangeArgs :
            filter_data(global_data.prepared[1], u, c, d).data
                = global_data.prepared[1]

\* a query whose user filter kept fewer rows than the prepared matrix has
C6_Witness ==
    /\ last.op = "analyze_data"
    /\ last.status = "Shown"
    /\ global_data.prepared # None
    /\ Len(last.view.rows) < Len(global_data.prepared[1].rows)

\* what the pipeline returns on the tables as they were loaded
FreshRun ==
    LET raw == loaded[1]
        ct == clean_and_transform(raw.user_log, raw.activity_log, raw.component_codes)
        rs == reshape_data(ct.val)
    IN [status |-> IF ct.err # "" THEN ct.err ELSE rs.err, val |-> rs.val]

\* C7: a run of clean_transform_reshape that fails, in the transform, the
\* reshape, the JSON save or the CSV backup, leaves the prepared slot as it
\* was; the slot changes only in a run whose every step succeeded.
C7_FailedRunKeepsPrepared ==
    [][(last'.op = "clean_transform_reshape" /\ last'.status # "ok")
            => global_data'.prepared = global_data.prepared]_vars

\* a run that failed in the CSV backup, after a reload, with the matrix of
\* the earlier tables still in the slot
C7_Witness ==
    /\ last.op = "clean_transform_reshape"
    /\ last.status = "OSError:backup_to_file"
    /\ global_data.prepared # None
    /\ FreshRun.status = ""
    /\ global_data.prepared # Some(FreshRun.val)

\* C10: every run of clean_transform_reshape on one loaded raw slot, the
\* first or a later one on the renamed user table, merges and reshapes as a
\* run on the freshly loaded tables does: where that one returns a matrix
\* and the two saves return, the run succeeds and stores that matrix, and
\* it raises in the transform or the reshape only where that one does.
C10_RerunSameResult ==
    (last.op = "clean_transform_reshape" /\ loaded # None) =>
        /\ FreshRun.status # "" => last.status = FreshRun.status
        /\ FreshRun.status = "" =>
            /\ last.status \in {"ok", "OSError:save_to_json", "OSError:backup_to_file"}
            /\ last.status = "ok" <=> (last.io.json /\ last.io.csv)
            /\ last.status = "ok" => global_data.prepared = Some(FreshRun.val)

\* a successful run on a user table that an earlier run had already renamed
C10_Witness ==
    /\ last.op = "clean_transform_reshape"
    /\ last.renamed_before
    /\ last.status = "ok"
    /\ global_data.prepared # None
    /\ Len(global_data.prepared[1].rows) = 2

====
